---- MODULE Spec2Model ----
(***************************************************************************)
(* Model of the ECG annotation app (src/app.py, final revision, lines      *)
(* 438-767): simulate_ecg_and_annotate, save_data_to_google_sheets and     *)
(* main's Streamlit script run; and of the first revision's main (lines   *)
(* 133-229), which stores the analysis result differently.                 *)
(*                                                                         *)
(* Units.  Python floats are modelled by exact integers:                   *)
(*   - sample indices and sampling rates are plain integers;               *)
(*   - signal amplitudes are integers in units of 0.0001 (AmpPerUnit per   *)
(*     1.0), so that rounding to 3 decimals does something;                *)
(*   - every table field that the code rounds to 3 decimals is an integer  *)
(*     number of thousandths (0.15 is 150, 1.1 s is 1100);                 *)
(*   - time-axis points are integers in units of 10 microseconds.          *)
(* Arrays are held in the state in a compact form: a signal as its length  *)
(* and its non-zero samples (Samples gives the array), a time axis as the  *)
(* start, step and number of points np.linspace derives (Point gives the   *)
(* k-th point).                                                            *)
(* Where IEEE-754 double arithmetic decides an outcome that exact          *)
(* arithmetic leaves on a boundary (d * (1/sampling_rate) against 0.6, and *)
(* the direction of round(x, 3) on a decimal tie), the outcome of the      *)
(* double computation is tabulated for the sampling rates of the model.    *)
(***************************************************************************)
EXTENDS Integers, Sequences, FiniteSets, TLC

\* A Python value that may be None is a sequence of length 0 (None) or 1.
None == <<>>
Some(v) == <<v>>
Val(o) == o[1]

\* Amplitude units per 1.0 of signal amplitude.
AmpPerUnit == 10 * 1000

(***************************************************************************)
(* Bounds of the model.                                                    *)
(***************************************************************************)
\* Largest number of spikes in a generated signal.
MaxSpikes == 3

(***************************************************************************)
(* The inputs.                                                             *)
(***************************************************************************)
\* Sampling rates of the model, both selectable on the slider (100..500 in
\* steps of 10).  At 200 Hz 0.6 s is hit exactly in double arithmetic; at
\* 160 Hz it is overshot, and d/160 s can be a decimal tie (...5 at the 4th
\* decimal).
SamplingRates == {160, 200}

\* Analysis durations of the model, in seconds (the slider goes from 1 to 10).
Durations == {1, 3}

\* Spike amplitudes: just below the height threshold, exactly on it, above it.
Amps == {4998, 5000, 9004}

\* Distances between consecutive spikes of a generated signal, in samples:
\* adjacent samples, one under the minimum peak distance, exactly the
\* minimum distance, 0.6 s and 1.0 s; at 160 Hz also a decimal tie
\* (86/160 = 0.5375), at the other rates 1.1 s.  Spikes under the height
\* threshold and spikes the distance filter drops make the peaks' distances
\* sums of these.
Gaps(sr) ==
  {1, (sr \div 2) - 1, sr \div 2, (3 * sr) \div 5, sr}
  \cup (IF sr = 160 THEN {86} ELSE {(11 * sr) \div 10})

\* Positions of the first spike: a sample closer to the start than the QRS
\* offset, and half a second in.
FirstPositions(sr) == {3, sr \div 2}

\* The number of samples: sampling_rate * duration (np.linspace's num).
NumSamples(sr, dur) == sr * dur

RECURSIVE SpikeSeqs(_, _)
\* All spike lists of exactly k spikes: increasing positions.
SpikeSeqs(sr, k) ==
  IF k = 0 THEN {<<>>}
  ELSE IF k = 1
       THEN {<<[pos |-> p, amp |-> a]>> : p \in FirstPositions(sr), a \in Amps}
       ELSE {Append(s, [pos |-> s[Len(s)].pos + g, amp |-> a]) :
               s \in SpikeSeqs(sr, k - 1), g \in Gaps(sr), a \in Amps}

InRange(s, n) == \A k \in 1..Len(s) : s[k].pos < n

\* The array of n samples that is 0 everywhere but on the spikes.
RECURSIVE SignalOf(_, _)
SignalOf(spikes, n) ==
  IF spikes = <<>>
  THEN [i \in 0..(n - 1) |-> 0]
  ELSE (spikes[1].pos :> spikes[1].amp) @@ SignalOf(Tail(spikes), n)

\* The array a signal of the state stands for, indexed from 0.
Samples(sig) == SignalOf(sig.nonzero, sig.len)

\* 0.8*sin(...) + 0.3*randn(...): the noise is unbounded, so any amplitude
\* array of the right length can come out; the model draws the arrays that
\* are 0 everywhere but on at most maxSpikes spikes.
Signals(sr, dur, maxSpikes) ==
  {[len |-> NumSamples(sr, dur), nonzero |-> s] :
     s \in {q \in UNION {SpikeSeqs(sr, k) : k \in 0..maxSpikes} :
              InRange(q, NumSamples(sr, dur))}}

(***************************************************************************)
(* scipy.signal.find_peaks(x, distance=..., height=...), as called on line *)
(* 458: local maxima, then the height filter, then the distance filter.    *)
(***************************************************************************)
RECURSIVE PlateauAhead(_, _, _, _)
\* The inner while of the local-maxima scan: the first index after i_ahead's
\* run of samples equal to x[i], capped at i_max.
PlateauAhead(x, i, i_ahead, i_max) ==
  IF i_ahead < i_max /\ x[i_ahead] = x[i]
  THEN PlateauAhead(x, i, i_ahead + 1, i_max)
  ELSE i_ahead

\* Indices of the local maxima of x (midpoint of a flat top).
LocalMaxima(x) ==
  LET i_max == Cardinality(DOMAIN x) - 1
      rises == {i \in 1..(i_max - 1) : x[i - 1] < x[i]}
      tops == {i \in rises : x[PlateauAhead(x, i, i + 1, i_max)] < x[i]}
  IN  {(i + (PlateauAhead(x, i, i + 1, i_max) - 1)) \div 2 : i \in tops}

\* A finite set of integers as the increasing sequence of its elements.
RECURSIVE SetToSortedSeq(_)
SetToSortedSeq(S) ==
  IF S = {} THEN <<>>
  ELSE LET m == CHOOSE m \in S : \A y \in S : m <= y
       IN  <<m>> \o SetToSortedSeq(S \ {m})

\* height=0.5: a peak is kept when its height is at least 0.5.
HeightMin == AmpPerUnit \div 2

\* Mutant: the minimum distance taken as 0.25 s.
PeakDistance_Quarter(sr) == sr \div 4

\* Mutant: the minimum distance taken as 0.05 s instead of 0.5 s.
PeakDistance_Twentieth(sr) == sr \div 20

\* distance=int(sampling_rate * 0.5)
PeakDistance(sr) == sr \div 2

RECURSIVE SelectStep(_, _, _, _, _)
\* The distance filter, from the highest priority down: order is the peaks'
\* slots by increasing priority (r-th entry = slot of rank r); a peak still
\* kept removes every neighbour closer than distance.
SelectStep(peaks, order, r, distance, keep) ==
  IF r = 0 THEN keep
  ELSE LET j == order[r]
       IN  IF j \notin keep
           THEN SelectStep(peaks, order, r - 1, distance, keep)
           ELSE SelectStep(peaks, order, r - 1, distance,
                  {k \in keep : k = j
                                \/ (k < j /\ peaks[j] - peaks[k] >= distance)
                                \/ (k > j /\ peaks[k] - peaks[j] >= distance)})

\* np.argsort(priority): slots by increasing height; equal heights keep their
\* order (arrays this short are insertion-sorted).
PriorityOrder(x, peaks) ==
  LET m == Len(peaks)
      before(k, j) == x[peaks[k]] < x[peaks[j]]
                      \/ (x[peaks[k]] = x[peaks[j]] /\ k < j)
      rank(j) == Cardinality({k \in 1..m : before(k, j)}) + 1
  IN  [r \in 1..m |-> CHOOSE j \in 1..m : rank(j) = r]

SelectByPeakDistance(x, peaks, distance) ==
  SelectStep(peaks, PriorityOrder(x, peaks), Len(peaks), distance, 1..Len(peaks))

find_peaks(x, distance, height) ==
  LET maxima == SetToSortedSeq({i \in LocalMaxima(x) : x[i] >= height})
      keep == SelectByPeakDistance(x, maxima, distance)
  IN  SetToSortedSeq({maxima[k] : k \in keep})

(***************************************************************************)
(* The annotation loop of simulate_ecg_and_annotate (lines 463-508).       *)
(***************************************************************************)
\* num/den rounded to the nearest integer; on a tie, down when tieDown.
RoundNearest(num, den, tieDown) ==
  LET q == num \div den
      r == num % den
  IN  IF 2 * r < den THEN q
      ELSE IF 2 * r > den THEN q + 1
      ELSE IF tieDown THEN q ELSE q + 1

\* The distances d (up to 800 samples) at 160 Hz where d * (1/160) is a
\* decimal tie at the 3rd decimal and numpy's round(x, 3), that is
\* rint(x * 1000) / 1000 on the double, comes out below d/160.
RRTiesDown160 ==
  {2, 10, 18, 26, 42, 50, 74, 90, 98, 114, 130, 138, 154, 162, 170, 178, 186,
   210, 218, 226, 250, 258, 266, 290, 298, 306, 330, 346, 354, 362, 370, 386,
   402, 410, 426, 442, 450, 466, 482, 490, 506, 522, 530, 546, 562, 570, 586,
   602, 610, 626, 642, 650, 658, 674, 682, 690, 698, 714, 722, 730, 738, 754,
   762, 770, 794}

\* The same for round(d * (1/160) - 0.15, 3).
RPTiesDown160 ==
  {10, 50, 74, 86, 90, 98, 114, 122, 130, 138, 154, 162, 170, 178, 182, 210,
   250, 290, 330, 354, 370, 386, 410, 426, 450, 466, 490, 506, 530, 546, 570,
   586, 610, 626, 650, 658, 666, 670, 674, 678, 682, 690, 698, 706, 714, 718,
   722, 730, 738, 746, 754, 758, 762, 770, 778, 786, 794}

\* Mutant: the interval cut to 3 decimals instead of rounded.
RoundRR_Truncates(d, sr) == (1000 * d) \div sr

\* round(rr_dur, 3), in thousandths of a second, for rr_dur = d * (1/sr).
RoundRR(d, sr) == RoundNearest(1000 * d, sr, sr = 160 /\ d \in RRTiesDown160)

\* round(rr_dur - pr_dur, 3), in thousandths, with pr_dur = 0.15.
RoundRP(d, sr) ==
  RoundNearest(1000 * d - 150 * sr, sr, sr = 160 /\ d \in RPTiesDown160)

\* round(a, 3) of an amplitude a, in thousandths (ties to even).
RoundAmp(a) ==
  RoundNearest(1000 * a, AmpPerUnit, ((1000 * a) \div AmpPerUnit) % 2 = 0)

\* The slider rates at which (0.6 * sr) * (1/sr) comes out above the double
\* 0.6; at every other slider rate it is the double 0.6 exactly.  At every
\* slider rate sr * (1/sr) is exactly 1.0.
Overshoots06 == {130, 150, 160, 210, 260, 300, 320, 370, 420, 490}

\* 0.6 < rr_dur < 1.0 for rr_dur = d * time_unit, time_unit = 1/sr.
InNormalRange(d, sr) ==
  /\ \/ 10 * d > 6 * sr
     \/ (10 * d = 6 * sr /\ sr \in Overshoots06)
  /\ d < sr

Diagnosis(d, sr) ==
  IF InNormalRange(d, sr) THEN "Normal Sinus Rhythm" ELSE "Tachycardia/Bradycardia"

\* int(0.05 * sampling_rate)
QrsOffset(sr) == sr \div 20

Max(a, b) == IF a >= b THEN a ELSE b

\* The pair of peaks the i-th pass of the loop reads (i from 0).
r_idx(peaks, i) == peaks[i + 1]
next_r_idx(peaks, i) == peaks[i + 2]

\* beat_data of the i-th pass of the loop (i from 0).
BeatData(x, peaks, i, sr) ==
  LET d == next_r_idx(peaks, i) - r_idx(peaks, i)
      q_idx == Max(0, r_idx(peaks, i) - QrsOffset(sr))
  IN  [Beat_Index |-> i + 1,
       P_Amp_mV   |-> 150,
       QRS_Amp_mV |-> RoundAmp(x[r_idx(peaks, i)] - x[q_idx]),
       T_Amp_mV   |-> 300,
       P_Dur_s    |-> 100,
       QRS_Dur_s  |-> 80,
       T_Dur_s    |-> 160,
       PR_Dur_s   |-> 150,
       ST_Dur_s   |-> 80,
       RP_Dur_s   |-> RoundRP(d, sr),
       RR_Dur_s   |-> RoundRR(d, sr),
       Diagnosis  |-> Diagnosis(d, sr)]

\* Mutant: the loop stops one pair early.
Annotations_StopsEarly(x, peaks, sr) ==
  [k \in 1..(Len(peaks) - 2) |-> BeatData(x, peaks, k - 1, sr)]

\* for i in range(len(r_peaks_indices) - 1): annotations.append(beat_data)
Annotations(x, peaks, sr) ==
  [k \in 1..(Len(peaks) - 1) |-> BeatData(x, peaks, k - 1, sr)]

\* Time-axis units per second (a point is an integer number of 10 us).
TimePerSecond == 100 * 1000

\* Mutant: the axis includes its end point (endpoint=True).
TimeAxis_WithEndpoint(sr, dur) ==
  [start |-> 0,
   step |-> (dur * TimePerSecond - 0) \div (NumSamples(sr, dur) - 1),
   num |-> NumSamples(sr, dur)]

\* np.linspace(0, duration, sampling_rate * duration, endpoint=False): num
\* points from start on, step = (stop - start) / num apart.
TimeAxis(sr, dur) ==
  [start |-> 0,
   step |-> (dur * TimePerSecond - 0) \div NumSamples(sr, dur),
   num |-> NumSamples(sr, dur)]

\* The k-th point of a time axis (k from 0).
Point(axis, k) == axis.start + k * axis.step

\* Mutant: only an empty peak list counts as too few.
TooFewPeaks_OnlyNone(peaks) == Len(peaks) < 1

\* len(r_peaks_indices) < 2
TooFewPeaks(peaks) == Len(peaks) < 2

\* return None, None, None, None
FailureResult ==
  [annotations_df |-> None, t |-> None, ecg_signal |-> None,
   r_peaks_indices |-> None]

\* Lines 460-508: the early return, else the table built by the loop.
AnnotateOrFail(sr, dur, sig, peaks) ==
  IF TooFewPeaks(peaks)
  THEN FailureResult
  ELSE [annotations_df |-> Some(Annotations(Samples(sig), peaks, sr)),
        t |-> Some(TimeAxis(sr, dur)),
        ecg_signal |-> Some(sig),
        r_peaks_indices |-> Some(peaks)]

(***************************************************************************)
(* The service-account configuration (st.secrets) and the private key.     *)
(***************************************************************************)
\* The ten keys lines 523-532 read, in the order they are read.
RequiredFields ==
  <<"type", "project_id", "private_key_id", "private_key", "client_email",
    "client_id", "auth_uri", "token_uri", "auth_provider_x509_cert_url",
    "client_x509_cert_url">>

RequiredFieldSet == {RequiredFields[k] : k \in 1..Len(RequiredFields)}

\* A string is the sequence of its characters; the backslash and the line
\* feed are characters like the others.
BS == "\\"
LF == "\n"

\* '-----BEGIN'
BeginMarker == <<"-", "-", "-", "-", "-", "B", "E", "G", "I", "N">>

\* Mutant: only the first escaped line break is replaced.
ReplaceEscapedNewlines_FirstOnly(key) ==
  IF \E k \in 1..(Len(key) - 1) : key[k] = BS /\ key[k + 1] = "n"
  THEN LET k == CHOOSE j \in 1..(Len(key) - 1) :
                  /\ key[j] = BS /\ key[j + 1] = "n"
                  /\ \A h \in 1..(j - 1) : ~(key[h] = BS /\ key[h + 1] = "n")
       IN  SubSeq(key, 1, k - 1) \o <<LF>> \o SubSeq(key, k + 2, Len(key))
  ELSE key

RECURSIVE ReplaceEscapedNewlines(_)
\* private_key.replace('\\n', '\n'): every backslash followed by n, left to
\* right and without overlap, becomes one line feed.
ReplaceEscapedNewlines(key) ==
  IF Len(key) < 2 THEN key
  ELSE IF key[1] = BS /\ key[2] = "n"
       THEN <<LF>> \o ReplaceEscapedNewlines(SubSeq(key, 3, Len(key)))
       ELSE <<key[1]>> \o ReplaceEscapedNewlines(Tail(key))

\* '\\n' in private_key
HasEscapedNewline(key) ==
  \E k \in 1..(Len(key) - 1) : key[k] = BS /\ key[k + 1] = "n"

\* Lines 538-540: the key after the newline fix.
NormalizedKey(key) ==
  IF HasEscapedNewline(key) THEN ReplaceEscapedNewlines(key) ELSE key

\* private_key.startswith('-----BEGIN')
StartsWithBegin(key) ==
  /\ Len(key) >= Len(BeginMarker)
  /\ SubSeq(key, 1, Len(BeginMarker)) = BeginMarker

\* The private keys of the model: line breaks escaped (as pasted into a TOML
\* string), real line breaks, no header, an escaped line break before the
\* header, the empty key, a header cut short, and a backslash before an
\* escaped line break.
PrivateKeys ==
  {BeginMarker \o <<BS, "n", "k", BS, "n">>,
   BeginMarker \o <<BS, BS, "n", "n">>,
   BeginMarker \o <<LF, "k", LF>>,
   <<"k", BS, "n">>,
   <<BS, "n">> \o BeginMarker,
   <<>>,
   SubSeq(BeginMarker, 1, Len(BeginMarker) - 1)}

\* The configurations of the model: the gcp_service_account section is there
\* or not, with all ten keys or all but one, and with one of the keys above.
SecretsConfigs ==
  {[section |-> FALSE, fields |-> {}, private_key |-> <<>>]}
  \cup {[section |-> TRUE, fields |-> RequiredFieldSet \ {f},
         private_key |-> BeginMarker \o <<BS, "n", "k", BS, "n">>] :
          f \in RequiredFieldSet}
  \cup {[section |-> TRUE, fields |-> RequiredFieldSet, private_key |-> k] :
          k \in PrivateKeys}

(***************************************************************************)
(* The 'Annotations' worksheet and save_data_to_google_sheets (513-596).   *)
(***************************************************************************)
\* df.columns.values.tolist()
Columns ==
  <<"Beat_Index", "P_Amp_mV", "QRS_Amp_mV", "T_Amp_mV", "P_Dur_s", "QRS_Dur_s",
    "T_Dur_s", "PR_Dur_s", "ST_Dur_s", "RP_Dur_s", "RR_Dur_s", "Diagnosis">>

\* One row of df.values.tolist().
RowOf(rec) ==
  <<rec.Beat_Index, rec.P_Amp_mV, rec.QRS_Amp_mV, rec.T_Amp_mV, rec.P_Dur_s,
    rec.QRS_Dur_s, rec.T_Dur_s, rec.PR_Dur_s, rec.ST_Dur_s, rec.RP_Dur_s,
    rec.RR_Dur_s, rec.Diagnosis>>

\* [df.columns.values.tolist()] + df.values.tolist()
SheetValues(df) == <<Columns>> \o [k \in 1..Len(df) |-> RowOf(df[k])]

\* Rows a worksheet may hold before the app ever wrote to it.
MaxLegacyRows == 4
LegacyRows == [k \in 1..MaxLegacyRows |-> <<"legacy">>]

\* Mutant: the worksheet is not cleared before the update.
Cleared_Nothing(ws) == ws

\* worksheet.clear(): no cell keeps a value.
Cleared(ws) == <<>>

\* worksheet.update(values): the values are written from cell A1 on; rows
\* below them keep what they held.
Updated(ws, values) ==
  [k \in 1..Max(Len(ws), Len(values)) |->
     IF k <= Len(values) THEN values[k] ELSE ws[k]]

\* What can happen to the calls into the credential and spreadsheet
\* libraries: all succeed, or one of them raises.
Outcomes ==
  {"ok", "credentials_error", "authorize_error", "spreadsheet_not_found",
   "open_error", "worksheet_error", "clear_error", "update_error"}

\* The spreadsheet calls of lines 579-587 in order, up to and including the
\* one that raises under the outcome.
SheetCalls(outcome) ==
  IF outcome = "authorize_error" THEN <<"authorize">>
  ELSE IF outcome \in {"spreadsheet_not_found", "open_error"}
       THEN <<"authorize", "open">>
  ELSE IF outcome = "worksheet_error" THEN <<"authorize", "open", "worksheet">>
  ELSE IF outcome = "clear_error"
       THEN <<"authorize", "open", "worksheet", "clear">>
  ELSE <<"authorize", "open", "worksheet", "clear", "update">>

\* Lines 577-596: the second try block and its handlers.
SyncSheet(df, ws, outcome) ==
  [shown |-> IF outcome = "ok" THEN {"upload_success"}
             ELSE IF outcome = "spreadsheet_not_found"
                  THEN {"error_spreadsheet_not_found"}
                  ELSE {"error_sync"},
   worksheet |-> IF outcome = "ok" THEN Updated(Cleared(ws), SheetValues(df))
                 ELSE IF outcome = "update_error" THEN Cleared(ws)
                 ELSE ws,
   calls |-> SheetCalls(outcome)]

\* Mutant: only the section is looked up, as in dict(st.secrets[...]).
MissingKey_SectionOnly(cfg) == ~cfg.section

\* The first missing key makes the dict literal of lines 522-533 raise KeyError.
MissingKey(cfg) ==
  \/ ~cfg.section
  \/ \E k \in 1..Len(RequiredFields) : RequiredFields[k] \notin cfg.fields

\* save_data_to_google_sheets(df) under the configuration cfg, with the
\* worksheet holding ws, when the library calls end as outcome says: what
\* it shows, what the worksheet holds after it, the spreadsheet calls it
\* made, and creds_dict['private_key'] as Credentials.from_service_account_info
\* (line 549) received it, None if the call was not reached.
save_data_to_google_sheets(df, cfg, ws, outcome) ==
  IF df = None \/ Val(df) = <<>>
  THEN [shown |-> {"warning_no_data"}, worksheet |-> ws, calls |-> <<>>,
        private_key |-> None]
  ELSE IF MissingKey(cfg)
  THEN [shown |-> {"error_missing_key"}, worksheet |-> ws, calls |-> <<>>,
        private_key |-> None]
  ELSE IF ~StartsWithBegin(NormalizedKey(cfg.private_key))
  THEN [shown |-> {"error_key_format"}, worksheet |-> ws, calls |-> <<>>,
        private_key |-> None]
  ELSE IF outcome = "credentials_error"
  THEN [shown |-> {"error_load_credentials"}, worksheet |-> ws, calls |-> <<>>,
        private_key |-> Some(NormalizedKey(cfg.private_key))]
  ELSE LET synced == SyncSheet(Val(df), ws, outcome)
       IN  [shown |-> synced.shown, worksheet |-> synced.worksheet,
            calls |-> synced.calls,
            private_key |-> Some(NormalizedKey(cfg.private_key))]

(***************************************************************************)
(* State.                                                                  *)
(***************************************************************************)
VARIABLES
  sampling_rate,    \* the sampling rate of the last analysis call
  duration,         \* its duration
  ecg_signal,       \* the signal it generated
  r_peaks_indices,  \* the peaks find_peaks gave it
  ret,              \* what it returned
  session_state,    \* st.session_state
  ui,               \* what the last script run put on the page
  event,            \* the widget event the last script run served
  secrets,          \* st.secrets
  worksheet,        \* the rows of the 'Annotations' worksheet
  gs_calls,         \* the spreadsheet calls of the last script run
  creds_key         \* the private key it handed to the credential constructor

callVars == <<sampling_rate, duration, ecg_signal, r_peaks_indices, ret>>

appVars ==
  <<session_state, ui, event, secrets, worksheet, gs_calls, creds_key>>

vars == <<callVars, appVars>>

\* simulate_ecg_and_annotate(sr, dur) when the random source gives sig.
Call(sr, dur, sig) ==
  LET peaks == find_peaks(Samples(sig), PeakDistance(sr), HeightMin)
  IN  /\ sampling_rate' = sr
      /\ duration' = dur
      /\ ecg_signal' = Some(sig)
      /\ r_peaks_indices' = Some(peaks)
      /\ ret' = Some(AnnotateOrFail(sr, dur, sig, peaks))

(***************************************************************************)
(* main (lines 601-762): one script run per widget event.                  *)
(***************************************************************************)
\* Lines 643-651: the session state a first script run sets up.
InitialSession ==
  [annotations_df |-> Some(<<>>), time_series |-> None, signal |-> None,
   r_indices |-> None]

\* Mutant: only the table is stored, as in the first revision (line 167).
StoredSession_TableOnly(r) ==
  [annotations_df |-> r.annotations_df, time_series |-> None,
   signal |-> None, r_indices |-> None]

\* Lines 666-670.
StoredSession(r) ==
  [annotations_df |-> r.annotations_df, time_series |-> r.t,
   signal |-> r.ecg_signal, r_indices |-> r.r_peaks_indices]

\* annotations_df is None or annotations_df.empty
NoneOrEmpty(df) == df = None \/ Val(df) = <<>>

RECURSIVE SumRR_OfRP(_)
\* Mutant: the mean is taken over the RP_Dur_s column.
SumRR_OfRP(df) ==
  IF df = <<>> THEN 0 ELSE Head(df).RP_Dur_s + SumRR_OfRP(Tail(df))

RECURSIVE SumRR(_)
\* The sum annotations_df['RR_Dur_s'].mean() divides by the row count, in
\* thousandths of a second.
SumRR(df) == IF df = <<>> THEN 0 ELSE Head(df).RR_Dur_s + SumRR(Tail(df))

\* annotations_df['Diagnosis'].mode().iloc[0]: the most frequent label, the
\* first in sorted order when both are as frequent.
ModeDiagnosis(df) ==
  LET normal == {k \in 1..Len(df) : df[k].Diagnosis = "Normal Sinus Rhythm"}
  IN  IF 2 * Cardinality(normal) >= Len(df)
      THEN "Normal Sinus Rhythm" ELSE "Tachycardia/Bradycardia"

\* f"{bpm:.0f}" for bpm = 60 / avg_rr: the nearest integer, the even one
\* when bpm is exactly halfway (with three records or more the rounding of
\* the floating-point sum decides an exact halfway case either way).
BpmShown(df) ==
  RoundNearest(60 * 1000 * Len(df), SumRR(df),
               ((60 * 1000 * Len(df)) \div SumRR(df)) % 2 = 0)

\* Lines 732-739: the summary metrics of the table df; avg_rr is the mean
\* before formatting, as sum over count.
Metrics(df) ==
  [mode_diagnosis |-> ModeDiagnosis(df),
   avg_rr |-> [sum |-> SumRR(df), count |-> Len(df)],
   bpm |-> BpmShown(df)]

\* annotations_df.to_csv(index=False): the header line, then one line per
\* record; every number is written with the digits that read back as the
\* same number, so a line is the row of its values.
to_csv(df) == <<Columns>> \o [k \in 1..Len(df) |-> RowOf(df[k])]

\* What lines 681-761 put on the page, before any upload.
ResultWidgets ==
  {"chart", "table", "metrics", "download_csv", "save_button"}

\* Lines 674-762: the results block of a script run on the session state ss;
\* save_pressed is the state of the "Save to Google Sheets" button.
DisplayResults(ss, save_pressed, cfg, ws, outcome) ==
  IF NoneOrEmpty(ss.annotations_df)
  THEN [shown |-> {}, table |-> None, metrics |-> None, csv |-> None,
        worksheet |-> ws, calls |-> <<>>, private_key |-> None]
  ELSE IF save_pressed
  THEN LET saved == save_data_to_google_sheets(ss.annotations_df, cfg, ws, outcome)
       IN  [shown |-> ResultWidgets \cup saved.shown,
            table |-> ss.annotations_df,
            metrics |-> Some(Metrics(Val(ss.annotations_df))),
            csv |-> Some(to_csv(Val(ss.annotations_df))),
            worksheet |-> saved.worksheet,
            calls |-> saved.calls,
            private_key |-> saved.private_key]
  ELSE [shown |-> ResultWidgets, table |-> ss.annotations_df,
        metrics |-> Some(Metrics(Val(ss.annotations_df))),
        csv |-> Some(to_csv(Val(ss.annotations_df))),
        worksheet |-> ws, calls |-> <<>>, private_key |-> None]

\* The part of a script run's output that is the page.
PageOf(page) ==
  [shown |-> page.shown, table |-> page.table, metrics |-> page.metrics,
   csv |-> page.csv]

\* Mutant: the early return after the error message is missing.
RunOutcome_FallsThrough(r, ss, cfg, ws) ==
  LET kept == IF NoneOrEmpty(r.annotations_df) THEN ss ELSE StoredSession(r)
      page == DisplayResults(kept, FALSE, cfg, ws, "ok")
  IN  [session |-> kept,
       shown |-> (IF NoneOrEmpty(r.annotations_df)
                  THEN {"error_insufficient"} ELSE {"success_analysis"})
                 \cup page.shown,
       table |-> page.table, metrics |-> page.metrics, csv |-> page.csv]

\* Lines 655-679 of a script run with "Run Annotation" pressed, once the
\* analysis has returned r: insufficient peaks end the run at the error
\* message; otherwise r is stored and the results block is drawn.
RunOutcome(r, ss, cfg, ws) ==
  IF NoneOrEmpty(r.annotations_df)
  THEN [session |-> ss, shown |-> {"error_insufficient"}, table |-> None,
        metrics |-> None, csv |-> None]
  ELSE LET page == DisplayResults(StoredSession(r), FALSE, cfg, ws, "ok")
       IN  [session |-> StoredSession(r),
            shown |-> {"success_analysis"} \cup page.shown,
            table |-> page.table, metrics |-> page.metrics, csv |-> page.csv]

\* The first script run of a session: no button pressed.
InitApp ==
  /\ sampling_rate = 200
  /\ duration = 5
  /\ ecg_signal = None
  /\ r_peaks_indices = None
  /\ ret = None
  /\ session_state = InitialSession
  /\ ui = [shown |-> {}, table |-> None, metrics |-> None, csv |-> None]
  /\ event = "load"
  /\ secrets \in SecretsConfigs
  /\ worksheet \in {<<>>, LegacyRows}
  /\ gs_calls = <<>>
  /\ creds_key = None

\* The script run after "Run Annotation" is pressed with the sliders on sr
\* and dur, the random source giving the signal x.
RunAnnotation(sr, dur, x) ==
  /\ Call(sr, dur, x)
  /\ event' = "run"
  /\ LET out == RunOutcome(Val(ret'), session_state, secrets, worksheet)
     IN  /\ session_state' = out.session
         /\ ui' = PageOf(out)
  /\ gs_calls' = <<>>
  /\ creds_key' = None
  /\ UNCHANGED <<secrets, worksheet>>

\* Mutant: an upload that fails resets the session state.
SaveToSheets_ResetsOnFailure(outcome) ==
  /\ "save_button" \in ui.shown
  /\ event' = "save"
  /\ LET page == DisplayResults(session_state, TRUE, secrets, worksheet, outcome)
     IN  /\ ui' = PageOf(page)
         /\ worksheet' = page.worksheet
         /\ gs_calls' = page.calls
         /\ creds_key' = page.private_key
         /\ session_state' = IF "upload_success" \in page.shown
                             THEN session_state ELSE InitialSession
  /\ UNCHANGED <<callVars, secrets>>

\* The script run after "Save to Google Sheets" is pressed; the button is
\* on the page only if the last script run drew the results block.
SaveToSheets(outcome) ==
  /\ "save_button" \in ui.shown
  /\ event' = "save"
  /\ LET page == DisplayResults(session_state, TRUE, secrets, worksheet, outcome)
     IN  /\ ui' = PageOf(page)
         /\ worksheet' = page.worksheet
         /\ gs_calls' = page.calls
         /\ creds_key' = page.private_key
  /\ UNCHANGED <<callVars, session_state, secrets>>

\* A script run no button caused (a slider moved, the CSV downloaded).
Rerun ==
  /\ event' = "rerun"
  /\ LET page == DisplayResults(session_state, FALSE, secrets, worksheet, "ok")
     IN  ui' = PageOf(page)
  /\ gs_calls' = <<>>
  /\ creds_key' = None
  /\ UNCHANGED <<callVars, session_state, secrets, worksheet>>

(***************************************************************************)
(* SpecSimulate: simulate_ecg_and_annotate alone, as a function of its     *)
(* arguments and of the signal the random source gives it.                 *)
(***************************************************************************)
\* The arguments and the random draw are fixed; the call has not run.
InitSimulate ==
  /\ sampling_rate \in SamplingRates
  /\ duration \in Durations
  /\ ecg_signal \in {Some(sig) : sig \in Signals(sampling_rate, duration, MaxSpikes)}
  /\ r_peaks_indices = None
  /\ ret = None
  /\ session_state = InitialSession
  /\ ui = [shown |-> {}, table |-> None, metrics |-> None, csv |-> None]
  /\ event = "load"
  /\ secrets = [section |-> FALSE, fields |-> {}, private_key |-> <<>>]
  /\ worksheet = <<>>
  /\ gs_calls = <<>>
  /\ creds_key = None

Simulate ==
  /\ ret = None
  /\ Call(sampling_rate, duration, Val(ecg_signal))
  /\ UNCHANGED appVars

NextSimulate == Simulate

SpecSimulate == InitSimulate /\ [][NextSimulate]_vars

(***************************************************************************)
(* Spec: the app, script run after script run.                             *)
(***************************************************************************)
\* Largest number of spikes in a signal the app's runs draw.
MaxAppSpikes == 3

\* The k spikes of an app signal: the first half a second in, the others
\* gap samples apart, all above the height threshold.
AppSpikes(sr, k, gap) ==
  [j \in 1..k |-> [pos |-> (sr \div 2) + (j - 1) * gap, amp |-> 9004]]

\* The signals the app's runs draw: no spike (no peak), one, or more, 0.25 s
\* (closer than the detector's distance), 0.5 s, 0.6 s or 1.0 s apart.
AppSignals(sr, dur) ==
  {[len |-> NumSamples(sr, dur), nonzero |-> sp] :
     sp \in {q \in {AppSpikes(sr, k, gap) :
                      k \in 0..MaxAppSpikes, gap \in {sr \div 4, sr \div 2, (3 * sr) \div 5, sr}} :
               InRange(q, NumSamples(sr, dur))}}

AppDurations == {3}

\* The slider position of the app's runs.
AppSamplingRates == {200}

Init == InitApp

Next ==
  \/ \E sr \in AppSamplingRates, dur \in AppDurations :
       \E x \in AppSignals(sr, dur) : RunAnnotation(sr, dur, x)
  \/ \E outcome \in Outcomes : SaveToSheets(outcome)
  \/ Rerun

Spec == Init /\ [][Next]_vars

(***************************************************************************)
(* SpecFirst: the first revision's main (lines 133-229), script run after  *)
(* script run.  Its session state has the one entry annotations_df; the    *)
(* other three entries of the session record stay None.  The listing of    *)
(* this revision ends at the "Data Management" header (line 229).          *)
(***************************************************************************)
\* The slider positions and the signals of the first revision's runs.
FirstSamplingRates == {100, 160, 200}
FirstDurations == {1, 2, 3}

\* Line 167: the table entry is assigned the analysis result, whatever it is.
FirstStoredSession(ss, r) == [ss EXCEPT !.annotations_df = r.annotations_df]

\* Lines 202-229: the results block; evaluating .empty on None raises
\* AttributeError, which ends the script run.
FirstDisplayResults(ss) ==
  IF ss.annotations_df = None
  THEN [shown |-> {"exception_attribute_error"}, table |-> None,
        metrics |-> None, csv |-> None]
  ELSE IF Val(ss.annotations_df) = <<>>
  THEN [shown |-> {}, table |-> None, metrics |-> None, csv |-> None]
  ELSE [shown |-> {"table", "metrics"}, table |-> ss.annotations_df,
        metrics |-> Some(Metrics(Val(ss.annotations_df))), csv |-> None]

\* Lines 162-204 of a script run with "Run Annotation" pressed, once the
\* analysis has returned r.
FirstRunOutcome(r, ss) ==
  LET stored == FirstStoredSession(ss, r)
  IN  IF NoneOrEmpty(r.annotations_df)
      THEN [session |-> stored, shown |-> {"error_insufficient"},
            table |-> None, metrics |-> None, csv |-> None]
      ELSE LET page == FirstDisplayResults(stored)
           IN  [session |-> stored, shown |-> {"chart"} \cup page.shown,
                table |-> page.table, metrics |-> page.metrics,
                csv |-> page.csv]

\* The state before the first script run; the session gets its empty table
\* at lines 158-160.
InitFirst ==
  /\ sampling_rate = 200
  /\ duration = 5
  /\ ecg_signal = None
  /\ r_peaks_indices = None
  /\ ret = None
  /\ session_state = InitialSession
  /\ ui = [shown |-> {}, table |-> None, metrics |-> None, csv |-> None]
  /\ event = "load"
  /\ secrets = [section |-> FALSE, fields |-> {}, private_key |-> <<>>]
  /\ worksheet = <<>>
  /\ gs_calls = <<>>
  /\ creds_key = None

\* The script run after "Run Annotation" is pressed.
FirstRunAnnotation(sr, dur, x) ==
  /\ Call(sr, dur, x)
  /\ event' = "run"
  /\ LET out == FirstRunOutcome(Val(ret'), session_state)
     IN  /\ session_state' = out.session
         /\ ui' = PageOf(out)
  /\ UNCHANGED <<secrets, worksheet, gs_calls, creds_key>>

\* A script run no button caused.
FirstRerun ==
  /\ event' = "rerun"
  /\ ui' = PageOf(FirstDisplayResults(session_state))
  /\ UNCHANGED <<callVars, session_state, secrets, worksheet, gs_calls,
                 creds_key>>

NextFirst ==
  \/ \E sr \in FirstSamplingRates, dur \in FirstDurations :
       \E x \in AppSignals(sr, dur) : FirstRunAnnotation(sr, dur, x)
  \/ FirstRerun

SpecFirst == InitFirst /\ [][NextFirst]_vars

(***************************************************************************)
(* Properties of simulate_ecg_and_annotate, checked under SpecSimulate.    *)
(***************************************************************************)
\* The call has returned.
Returned == ret # None

\* The call has returned a table.
ReturnedTable == Returned /\ Val(ret).annotations_df # None

\* The peaks of the call that returned, and the table it returned.
Peaks == Val(r_peaks_indices)
Table == Val(Val(ret).annotations_df)

\* The distance in samples between the peaks of record k (k from 1).
PairDistance(k) == Peaks[k + 1] - Peaks[k]

\* v thousandths is num/den rounded to the 3rd decimal, either way on a tie.
IsRounded(v, num, den) ==
  /\ 2 * (v * den - 1000 * num) <= den
  /\ 2 * (1000 * num - v * den) <= den

\* C1: every Beat Record is labelled "Normal Sinus Rhythm" if and only if
\* its inter-peak interval lies in [0.6 s, 1.0 s], both ends included, and
\* "Tachycardia/Bradycardia" otherwise.
C1_NormalIffInclusive ==
  ReturnedTable =>
    \A k \in 1..Len(Table) :
      Table[k].Diagnosis =
        IF 6 * sampling_rate <= 10 * PairDistance(k)
           /\ PairDistance(k) <= sampling_rate
        THEN "Normal Sinus Rhythm"
        ELSE "Tachycardia/Bradycardia"

\* C2: at 200 Hz with peaks at 100, 300 and 520 the table has exactly two
\* records, with intervals 1.0 s and 1.1 s, labelled "Normal Sinus Rhythm"
\* and "Tachycardia/Bradycardia".
C2_ExampleRun ==
  (Returned /\ sampling_rate = 200 /\ Peaks = <<100, 300, 520>>) =>
    /\ Val(ret).annotations_df # None
    /\ Len(Table) = 2
    /\ Table[1].RR_Dur_s = 1000
    /\ Table[2].RR_Dur_s = 1100
    /\ Table[1].Diagnosis = "Normal Sinus Rhythm"
    /\ Table[2].Diagnosis = "Tachycardia/Bradycardia"

\* C3: with N >= 2 peaks the call returns a table of exactly N-1 records,
\* Beat_Index 1, 2, ..., N-1 in order, record i built from the i-th and the
\* (i+1)-th peak: its amplitude is read at the i-th peak and its interval is
\* the distance to the next one.
C3_OneRecordPerPair ==
  (Returned /\ Len(Peaks) >= 2) =>
    /\ Val(ret).annotations_df # None
    /\ Len(Table) = Len(Peaks) - 1
    /\ \A k \in 1..Len(Table) :
         /\ Table[k].Beat_Index = k
         /\ IsRounded(Table[k].RR_Dur_s, Peaks[k + 1] - Peaks[k], sampling_rate)
         /\ IsRounded(Table[k].QRS_Amp_mV,
                      Samples(Val(ecg_signal))[Peaks[k]]
                        - Samples(Val(ecg_signal))[
                            Max(0, Peaks[k] - (sampling_rate \div 20))],
                      AmpPerUnit)

C3_Witness ==
  /\ Returned
  /\ Len(Peaks) = 3
  /\ ReturnedTable
  /\ Len(Table) = 2
  /\ Table[2].Beat_Index = 2
  /\ Table[1].RR_Dur_s # Table[2].RR_Dur_s

\* C4: with fewer than 2 peaks the call returns the failure result (no
\* table, no time axis, no signal, no peaks), and a table it returns is
\* never one with zero rows.
C4_TooFewPeaksFail ==
  Returned =>
    /\ Len(Peaks) < 2 =>
         /\ Val(ret).annotations_df = None
         /\ Val(ret).t = None
         /\ Val(ret).ecg_signal = None
         /\ Val(ret).r_peaks_indices = None
    /\ Val(ret).annotations_df # None => Len(Table) >= 1

C4_Witness ==
  /\ Returned
  /\ Len(Peaks) = 1
  /\ Val(ret).annotations_df = None
  /\ Val(ret).r_peaks_indices = None

\* C6: in every record RR_Dur_s is the distance between its two peaks
\* divided by the sampling rate, rounded to 3 decimals, and RP_Dur_s is that
\* unrounded quotient minus 0.15, rounded to 3 decimals.
C6_IntervalsRounded ==
  ReturnedTable =>
    \A k \in 1..Len(Table) :
      /\ IsRounded(Table[k].RR_Dur_s, PairDistance(k), sampling_rate)
      /\ 2 * (Table[k].RP_Dur_s * sampling_rate
                - (1000 * PairDistance(k) - 150 * sampling_rate)) <= sampling_rate
      /\ 2 * ((1000 * PairDistance(k) - 150 * sampling_rate)
                - Table[k].RP_Dur_s * sampling_rate) <= sampling_rate

\* An interval on a decimal tie where the two fields round apart
\* (86/160 = 0.5375 s: RR_Dur_s 0.538 and RP_Dur_s 0.387).
C6_Witness ==
  /\ ReturnedTable
  /\ sampling_rate = 160
  /\ \E k \in 1..Len(Table) :
       /\ PairDistance(k) = 86
       /\ Table[k].RR_Dur_s = 538
       /\ Table[k].RP_Dur_s = 387

\* C7: the peaks the annotator works on are strictly increasing sample
\* indices, and no two consecutive ones are closer than
\* floor(sampling_rate * 0.5) samples.
C7_PeaksApart ==
  Returned =>
    /\ \A k \in 1..Len(Peaks) : Peaks[k] \in 0..(sampling_rate * duration - 1)
    /\ \A k \in 1..(Len(Peaks) - 1) :
         /\ Peaks[k] < Peaks[k + 1]
         /\ 2 * (Peaks[k + 1] - Peaks[k]) >= sampling_rate - (sampling_rate % 2)

\* Two peaks exactly the minimum distance apart are both kept, while a
\* local maximum above the height threshold was dropped for being too close.
C7_Witness ==
  /\ Returned
  /\ \E k \in 1..(Len(Peaks) - 1) : 2 * (Peaks[k + 1] - Peaks[k]) = sampling_rate
  /\ \E i \in LocalMaxima(Samples(Val(ecg_signal))) :
       /\ Samples(Val(ecg_signal))[i] >= HeightMin
       /\ \A k \in 1..Len(Peaks) : Peaks[k] # i

(***************************************************************************)
(* Properties of main and save_data_to_google_sheets, checked under Spec.  *)
(***************************************************************************)
\* The table the session state holds, and whether it holds one with rows.
SessionTable == Val(session_state.annotations_df)
SessionHasRows ==
  session_state.annotations_df # None /\ SessionTable # <<>>

\* The last script run served "Run Annotation" and its analysis reported
\* insufficient peaks.
FailedRun == event = "run" /\ Val(ret).annotations_df = None

\* C5: a script run whose analysis reports insufficient peaks shows the
\* failure message and nothing else: no chart, no table, no metrics, no CSV
\* export, no upload, whatever the session state holds from earlier runs.
C5_FailedRunShowsOnlyError ==
  FailedRun =>
    /\ ui.shown = {"error_insufficient"}
    /\ ui.table = None
    /\ gs_calls = <<>>

\* A failed run while the session still holds the table of an earlier run.
C5_Witness ==
  /\ FailedRun
  /\ SessionHasRows
  /\ "error_insufficient" \in ui.shown

\* The messages save_data_to_google_sheets reports a failure with.
ExportErrors ==
  {"error_missing_key", "error_key_format", "error_load_credentials",
   "error_spreadsheet_not_found", "error_sync"}

\* C8: an upload that does not succeed is reported by one of the export's
\* own error messages within the script run, which still draws the results
\* block; neither that run nor a plain rerun changes the session's table,
\* time series, signal or peak indices, and both show the session's table.
C8_ExportFailureLocal ==
  [][/\ (event' = "save" /\ "upload_success" \notin ui'.shown) =>
          /\ ui'.shown \cap ExportErrors # {}
          /\ ResultWidgets \subseteq ui'.shown
     /\ event' \in {"save", "rerun"} =>
          /\ session_state' = session_state
          /\ SessionHasRows => ui'.table = session_state.annotations_df]_vars

\* An upload that failed in its last call, the results still on the page.
C8_Witness ==
  /\ event = "save"
  /\ "error_sync" \in ui.shown
  /\ gs_calls # <<>>
  /\ gs_calls[Len(gs_calls)] = "update"
  /\ SessionHasRows
  /\ ui.table = session_state.annotations_df

\* C9: after a successful upload the worksheet holds the header row of the
\* table's column names, then one row per Beat Record in table order, and
\* nothing else: no row of what it held before.
C9_SheetIsTheTable ==
  (event = "save" /\ "upload_success" \in ui.shown) =>
    /\ Len(worksheet) = Len(SessionTable) + 1
    /\ worksheet[1] = Columns
    /\ \A k \in 1..Len(SessionTable) :
         /\ Len(worksheet[k + 1]) = Len(Columns)
         /\ \A c \in 1..Len(Columns) :
              worksheet[k + 1][c] = SessionTable[k][Columns[c]]

\* A successful upload of a one-record table.
C9_Witness ==
  /\ event = "save"
  /\ "upload_success" \in ui.shown
  /\ gs_calls = <<"authorize", "open", "worksheet", "clear", "update">>
  /\ Len(SessionTable) = 1
  /\ Len(worksheet) = 2

\* The key does not start with '-----BEGIN'.
LacksHeader(key) ==
  \/ Len(key) < Len(BeginMarker)
  \/ \E i \in 1..Len(BeginMarker) : key[i] # BeginMarker[i]

\* The configuration lacks one of the ten keys, or its private key, line
\* breaks normalized, lacks the header.
BadConfig ==
  \/ ~secrets.section
  \/ secrets.fields # RequiredFieldSet
  \/ LacksHeader(NormalizedKey(secrets.private_key))

\* C10: with a configuration that lacks one of the ten required keys, or
\* whose private key after newline normalization does not start with
\* '-----BEGIN', an upload reports an error and makes no spreadsheet call:
\* nothing is authorized, opened, cleared or updated.
C10_BadConfigStopsEarly ==
  [][(event' = "save" /\ BadConfig) =>
       /\ ui'.shown \cap {"error_missing_key", "error_key_format"} # {}
       /\ "upload_success" \notin ui'.shown
       /\ gs_calls' = <<>>
       /\ worksheet' = worksheet]_vars

\* A key refused for its format although its line breaks were escaped.
C10_Witness ==
  /\ event = "save"
  /\ "error_key_format" \in ui.shown
  /\ HasEscapedNewline(secrets.private_key)
  /\ gs_calls = <<>>

\* C11: the private key the credential constructor receives is the
\* configured key with every escaped line break (backslash, n) turned into
\* one line feed: no escaped line break is left in it, it is shorter by one
\* character per escaped line break, and a key without any is handed over
\* as configured.
C11_KeyNormalized ==
  (event = "save" /\ creds_key # None) =>
    LET configured == secrets.private_key
        handed == Val(creds_key)
        escapes == {k \in 1..(Len(configured) - 1) :
                      configured[k] = BS /\ configured[k + 1] = "n"}
    IN  /\ \A k \in 1..(Len(handed) - 1) :
             ~(handed[k] = BS /\ handed[k + 1] = "n")
        /\ Len(handed) = Len(configured) - Cardinality(escapes)
        /\ Cardinality({k \in 1..Len(handed) : handed[k] = LF})
             = Cardinality({k \in 1..Len(configured) : configured[k] = LF})
               + Cardinality(escapes)
        /\ escapes = {} => handed = configured

\* The constructor received a key in which two escaped line breaks were
\* replaced.
C11_Witness ==
  /\ event = "save"
  /\ creds_key # None
  /\ secrets.private_key = BeginMarker \o <<BS, "n", "k", BS, "n">>
  /\ Val(creds_key) = BeginMarker \o <<LF, "k", LF>>

(***************************************************************************)
(* The time axis of simulate_ecg_and_annotate, checked under SpecSimulate. *)
(***************************************************************************)
\* The time axis and the signal the call returned.
ReturnedAxis == Val(Val(ret).t)
ReturnedSignal == Val(Val(ret).ecg_signal)

\* C12: the returned time axis has sampling_rate * duration points, point k
\* is k / sampling_rate: the first is 0, neighbours are 1 / sampling_rate
\* apart, every point is below duration; the signal has as many samples.
C12_TimeAxis ==
  ReturnedTable =>
    LET n == sampling_rate * duration
    IN  /\ ReturnedAxis.num = n
        /\ Point(ReturnedAxis, 0) = 0
        /\ \A k \in 0..(n - 1) :
             /\ Point(ReturnedAxis, k) * sampling_rate = k * TimePerSecond
             /\ Point(ReturnedAxis, k) < duration * TimePerSecond
        /\ \A k \in 0..(n - 2) :
             (Point(ReturnedAxis, k + 1) - Point(ReturnedAxis, k)) * sampling_rate
               = TimePerSecond
        /\ ReturnedSignal.len = n

\* A 3 s run at 160 Hz: 480 points, the last at 479/160 s = 2.99375 s.
C12_Witness ==
  /\ ReturnedTable
  /\ sampling_rate = 160
  /\ duration = 3
  /\ ReturnedAxis.num = 480
  /\ Point(ReturnedAxis, 479) = 299375

RECURSIVE ColumnSum(_, _)
\* The sum of column c over the data lines of an exported file.
ColumnSum(lines, c) ==
  IF Len(lines) <= 1 THEN 0
  ELSE lines[Len(lines)][c] + ColumnSum(SubSeq(lines, 1, Len(lines) - 1), c)

\* The position of the RR_Dur_s column in the header of an exported file.
RRColumn(lines) == CHOOSE c \in 1..Len(lines[1]) : lines[1][c] = "RR_Dur_s"

\* The heart rate recomputed from an exported file, 60 over the mean of its
\* RR_Dur_s column, as the fraction num / den.
RecomputedBpm(lines) ==
  [num |-> 60 * 1000 * (Len(lines) - 1),
   den |-> ColumnSum(lines, RRColumn(lines))]

\* C13: on every script run that shows the summary, the heart rate shown is
\* 60 over the mean of the RR_Dur_s column of the table that run displays
\* and exports: recomputed from the exported file it is the same number to
\* the shown precision, and the displayed table has the exported rows.
C13_BpmFromShownTable ==
  ui.metrics # None =>
    /\ ui.table # None /\ ui.csv # None
    /\ Len(Val(ui.csv)) = Len(Val(ui.table)) + 1
    /\ \A k \in 1..Len(Val(ui.table)) :
         Val(ui.csv)[k + 1][RRColumn(Val(ui.csv))] = Val(ui.table)[k].RR_Dur_s
    /\ LET again == RecomputedBpm(Val(ui.csv))
           shown == Val(ui.metrics).bpm
       IN  /\ again.den > 0
           /\ 2 * (shown * again.den - again.num) <= again.den
           /\ 2 * (again.num - shown * again.den) <= again.den

\* A summary of two beats 0.6 s long: 100 bpm.
C13_Witness ==
  /\ ui.metrics # None
  /\ event = "run"
  /\ Len(Val(ui.table)) = 2
  /\ Val(ui.metrics).bpm = 100
  /\ Val(ui.metrics).avg_rr = [sum |-> 1200, count |-> 2]

\* The complete table as a worksheet holds it: the header row, then the
\* rows of the session's table.
CompleteSheet(ws) ==
  /\ Len(ws) = Len(SessionTable) + 1
  /\ ws[1] = Columns
  /\ \A k \in 1..Len(SessionTable) :
       /\ Len(ws[k + 1]) = Len(Columns)
       /\ \A c \in 1..Len(Columns) : ws[k + 1][c] = SessionTable[k][Columns[c]]

\* C14: after an upload, whatever its outcome, the worksheet holds what it
\* held before or the complete new table; no failure leaves it cleared or
\* partly written.
C14_SheetOldOrNew ==
  [][event' = "save" =>
       (worksheet' = worksheet \/ CompleteSheet(worksheet'))]_vars

\* The four session entries are the four results of the analysis result r,
\* and r is a success.
SessionFromRun(ss, r) ==
  /\ r.annotations_df # None /\ Val(r.annotations_df) # <<>>
  /\ ss.annotations_df = r.annotations_df
  /\ ss.time_series = r.t
  /\ ss.signal = r.ecg_signal
  /\ ss.r_indices = r.r_peaks_indices

\* C15: the session starts with the empty table and three None entries;
\* a script run leaves the four entries as they are, or, when it served
\* "Run Annotation" and the analysis succeeded, sets all four to the results
\* of that analysis; a failed analysis, an upload and a plain rerun change
\* none of them.  So the four are always all initial or all from one run.
C15_SessionAllOrNothing ==
  /\ session_state =
       [annotations_df |-> Some(<<>>), time_series |-> None,
        signal |-> None, r_indices |-> None]
  /\ [][/\ \/ session_state' = session_state
           \/ event' = "run" /\ SessionFromRun(session_state', Val(ret'))
        /\ (event' = "run" /\ Val(ret').annotations_df = None)
             => session_state' = session_state
        /\ event' \in {"save", "rerun"} => session_state' = session_state]_vars

\* A failed run on a signal other than the one the session's four entries
\* come from.
C15_Witness ==
  /\ FailedRun
  /\ session_state.annotations_df # None /\ SessionTable # <<>>
  /\ session_state.time_series # None
  /\ session_state.signal # None
  /\ session_state.r_indices # None
  /\ session_state.signal # ecg_signal
  /\ Len(Val(session_state.r_indices)) = Len(SessionTable) + 1

\* C16: in the first revision's main the session entry annotations_df is
\* a table, possibly empty, after every script run, never None: the
\* emptiness test that guards the results block is defined on every rerun.
C16_FirstTableNeverNone ==
  /\ session_state.annotations_df # None
  /\ "exception_attribute_error" \notin ui.shown

\* C17: every Beat Record of the session's table has RR_Dur_s >= 0.5, and
\* whenever a script run shows the summary the table has a record, the sum
\* of its RR_Dur_s column (so its mean, the divisor of 60 / mean) is
\* positive and at least half a second per record, and the heart rate shown
\* is at most 120 bpm.
C17_HeartRateAtMost120 ==
  /\ session_state.annotations_df # None =>
       \A k \in 1..Len(SessionTable) : SessionTable[k].RR_Dur_s >= 500
  /\ ui.metrics # None =>
       /\ ui.table # None /\ Len(Val(ui.table)) >= 1
       /\ \A k \in 1..Len(Val(ui.table)) : Val(ui.table)[k].RR_Dur_s >= 500
       /\ Val(ui.metrics).avg_rr.count = Len(Val(ui.table))
       /\ Val(ui.metrics).avg_rr.sum > 0
       /\ 2 * Val(ui.metrics).avg_rr.sum >= 1000 * Val(ui.metrics).avg_rr.count
       /\ Val(ui.metrics).bpm <= 120

\* A summary at the bound: peaks exactly half a second apart, of which one
\* closer peak was dropped, shown as 120 bpm.
C17_Witness ==
  /\ event = "run"
  /\ ui.metrics # None
  /\ Val(ui.metrics).bpm = 120
  /\ Len(Val(ecg_signal).nonzero) > Len(Peaks)
  /\ \A k \in 1..Len(SessionTable) : SessionTable[k].RR_Dur_s = 500

====
